---- MODULE Spec2Model ----
\* Post-install check of dynamic linking for ELF files
\* (lib/spack/spack/hooks/check_dynamic_linking_elf.py).
\*
\* Byte strings are sequences of tokens: "/" ":" "." "$ORIGIN" are the
\* separators and the placeholder the code looks for, "<FF>" is a byte that
\* is not valid UTF-8, every other token is a run of ordinary characters.
EXTENDS Integers, Sequences, FiniteSets, TLC

VARIABLES
    appElf,     \* parsed content of <prefix>/bin/app (or NotElf)
    kindA,      \* content of the library files in <prefix>/lib
    kindB,      \* content of the library files in /o/lib (outside the prefix)
    pc,         \* position of post_install: "start", "walk", "done"
    external,   \* spec.external of the invocation
    platform,   \* spec.platform of the invocation
    strict,     \* config:shared_linking:strict
    stack,      \* tree walker: entries (relative paths) still to be visited
    visited,    \* the calls of visit_file so far, in order: the file (rel_path)
                \* and what the call computed (Analyse)
    problems,   \* visitor.problems: insertion-ordered dict rel_path -> Problem
    raised,     \* exception that left post_install (type "none": none did)
    log         \* texts passed to tty.error, in order

vars == <<appElf, kindA, kindB, pc, external, platform, strict, stack,
          visited, problems, raised, log>>

\* ---------------------------------------------------------------- bounds
\* needed libraries and RPATH entries of bin/app when the engine runs alone
MaxNeeded == 2
MaxRpath == 2
\* the same, when the whole of post_install runs
WalkNeeded == 1
WalkRpath == 1

\* ------------------------------------------------------- byte-string helpers
SeqsUpTo(S, n) == UNION {[1..k -> S] : k \in 0..n}

RECURSIVE Flatten(_)
Flatten(ss) == IF ss = <<>> THEN <<>> ELSE Head(ss) \o Flatten(Tail(ss))

Contains(s, t) == \E i \in 1..Len(s) : s[i] = t

\* bytes.split(sep): always at least one piece, empty pieces kept
RECURSIVE SplitAcc(_, _, _)
SplitAcc(s, sep, cur) ==
    IF s = <<>> THEN <<cur>>
    ELSE IF Head(s) = sep THEN <<cur>> \o SplitAcc(Tail(s), sep, <<>>)
    ELSE SplitAcc(Tail(s), sep, Append(cur, Head(s)))

Split(s, sep) == SplitAcc(s, sep, <<>>)

\* bytes.replace(old, new) for a one-token old
RECURSIVE Replace(_, _, _)
Replace(s, old, new) ==
    IF s = <<>> THEN <<>>
    ELSE (IF Head(s) = old THEN new ELSE <<Head(s)>>) \o Replace(Tail(s), old, new)

\* sep.join(pieces)
RECURSIVE Join(_, _)
Join(pieces, sep) ==
    IF pieces = <<>> THEN <<>>
    ELSE IF Len(pieces) = 1 THEN pieces[1]
    ELSE pieces[1] \o <<sep>> \o Join(Tail(pieces), sep)

\* os.path.isabs
isabs(p) == p # <<>> /\ p[1] = "/"

\* os.path.join(a, b)
pathjoin(a, b) ==
    IF isabs(b) THEN b
    ELSE IF a = <<>> \/ a[Len(a)] = "/" THEN a \o b
    ELSE a \o <<"/">> \o b

LastSlash(p) ==
    IF Contains(p, "/") THEN CHOOSE i \in 1..Len(p) :
        p[i] = "/" /\ \A j \in (i + 1)..Len(p) : p[j] # "/"
    ELSE 0

RECURSIVE RStripSlash(_)
RStripSlash(p) ==
    IF p # <<>> /\ p[Len(p)] = "/" THEN RStripSlash(SubSeq(p, 1, Len(p) - 1)) ELSE p

\* os.path.dirname
dirname(p) ==
    LET head == SubSeq(p, 1, LastSlash(p))
    IN IF head # <<>> /\ \E i \in 1..Len(head) : head[i] # "/"
       THEN RStripSlash(head) ELSE head

\* bytes.decode("utf-8") succeeds
Decodable(b) == ~Contains(b, "<FF>")

RECURSIVE Pick(_, _, _)
Pick(s, flags, want) ==
    IF s = <<>> THEN <<>>
    ELSE (IF Head(flags) = want THEN <<Head(s)>> ELSE <<>>)
         \o Pick(Tail(s), Tail(flags), want)

\* llnl.util.lang.stable_partition(s, predicate), flags[i] = predicate(s[i]):
\* <<the items with the predicate, the items without>>, order kept
stable_partition(s, flags) == <<Pick(s, flags, TRUE), Pick(s, flags, FALSE)>>

\* d[k] = v on an insertion-ordered dict, kept as a sequence of entries
HasKey(d, k) == \E i \in 1..Len(d) : d[i].key = k
DictSet(d, k, v) ==
    IF HasKey(d, k)
    THEN [i \in 1..Len(d) |-> IF d[i].key = k THEN [key |-> k, val |-> v] ELSE d[i]]
    ELSE Append(d, [key |-> k, val |-> v])
DictGet(d, k) == d[CHOOSE i \in 1..Len(d) : d[i].key = k].val
Keys(d) == [i \in 1..Len(d) |-> d[i].key]

\* ------------------------------------------------------------ ELF contents
\* What elf.parse_elf makes of a file's bytes: a descriptor, or (elf = FALSE)
\* an ElfParsingError.
Elf(e_type, le, is64, machine, needed, has_rpath, rpath) ==
    [elf |-> TRUE, e_type |-> e_type, is_little_endian |-> le, is_64_bit |-> is64,
     e_machine |-> machine, has_needed |-> needed # <<>>, dt_needed_strs |-> needed,
     has_rpath |-> has_rpath, dt_rpath_str |-> rpath]

Malformed ==
    [elf |-> FALSE, e_type |-> "none", is_little_endian |-> TRUE, is_64_bit |-> TRUE,
     e_machine |-> "none", has_needed |-> FALSE, dt_needed_strs |-> <<>>,
     has_rpath |-> FALSE, dt_rpath_str |-> <<>>]

\* Library files the model puts on disk; "missing" is no file at all.
LibKinds == {"missing", "malformed", "dyn64", "dyn32", "dynBE", "dynArm", "exec64"}

LibElf(kind, needed) ==
    CASE kind = "dyn64" -> Elf("ET_DYN", TRUE, TRUE, "x86_64", needed, FALSE, <<>>)
      [] kind = "dyn32" -> Elf("ET_DYN", TRUE, FALSE, "x86_64", needed, FALSE, <<>>)
      [] kind = "dynBE" -> Elf("ET_DYN", FALSE, TRUE, "x86_64", needed, FALSE, <<>>)
      [] kind = "dynArm" -> Elf("ET_DYN", TRUE, TRUE, "aarch64", needed, FALSE, <<>>)
      [] kind = "exec64" -> Elf("ET_EXEC", TRUE, TRUE, "x86_64", needed, FALSE, <<>>)
      [] OTHER -> Malformed

\* ------------------------------------------------------------- file system
\* File names (each a byte string)
nP == <<"p">>
nO == <<"o">>
nBin == <<"bin">>
nLib == <<"lib">>
nExt == <<"ext">>
nApp == <<"app">>
nAppLnk == <<"applnk">>
nBad == <<"bad">>
LibX == <<"libx", ".", "so">>
LibC == <<"libc", ".", "so", ".", "6">>
LibU == <<"lib", "<FF>", ".", "so">>

\* Byte-string paths
Prefix == <<"/", "p">>
DirB == <<"/", "o", "/", "lib">>
OriginLib == <<"$ORIGIN", "/", ".", ".", "/", "lib">>
RelLib == <<"lib">>
DirectX == DirB \o <<"/">> \o LibX
DirectU == DirB \o <<"/">> \o LibU
RelDirectX == <<"lib", "/">> \o LibX

NoNode == [type |-> "none", content |-> Malformed, target |-> <<>>]
DirNode == [type |-> "dir", content |-> Malformed, target |-> <<>>]
FileNode(c) == [type |-> "file", content |-> c, target |-> <<>>]
LinkNode(t) == [type |-> "link", content |-> Malformed, target |-> t]
LibNode(kind, needed) ==
    IF kind = "missing" THEN NoNode ELSE FileNode(LibElf(kind, needed))

\* The directory entry at a canonical path (a sequence of file names from /).
\*   /p/bin/app              the ELF under test
\*   /p/bin/applnk -> app    a symlinked file
\*   /p/ext -> /o            a symlinked directory
\*   /p/lib/libc.so.6, /p/lib/libx.so   (libx.so needs /o/lib/libx.so)
\*   /o/bad                  an ELF that cannot resolve its needed library
\*   /o/lib/libx.so, /o/lib/lib<FF>.so
Node(c) ==
    CASE c = <<>> -> DirNode
      [] c = <<nP>> -> DirNode
      [] c = <<nP, nBin>> -> DirNode
      [] c = <<nP, nBin, nApp>> -> FileNode(appElf)
      [] c = <<nP, nBin, nAppLnk>> -> LinkNode(<<nP, nBin, nApp>>)
      [] c = <<nP, nExt>> -> LinkNode(<<nO>>)
      [] c = <<nP, nLib>> -> DirNode
      [] c = <<nP, nLib, LibC>> -> LibNode(kindA, <<>>)
      [] c = <<nP, nLib, LibX>> -> LibNode(kindA, <<DirectX>>)
      [] c = <<nO>> -> DirNode
      [] c = <<nO, nBad>> -> FileNode(LibElf("exec64", <<LibX>>))
      [] c = <<nO, nLib>> -> DirNode
      [] c = <<nO, nLib, LibX>> -> LibNode(kindB, <<>>)
      [] c = <<nO, nLib, LibU>> -> LibNode(kindB, <<>>)
      [] OTHER -> NoNode

\* The names a directory can hold, in name order
Listing(c) ==
    CASE c = <<nP>> -> <<nBin, nExt, nLib>>
      [] c = <<nP, nBin>> -> <<nApp, nAppLnk>>
      [] c = <<nP, nLib>> -> <<LibC, LibX>>
      [] c = <<nO>> -> <<nBad, nLib>>
      [] c = <<nO, nLib>> -> <<LibX, LibU>>
      [] OTHER -> <<>>

Parent(c) == IF c = <<>> THEN <<>> ELSE SubSeq(c, 1, Len(c) - 1)

\* Path lookup as the kernel does it for open(): "" and "." stay, ".." goes up,
\* symlinks are followed. at = the canonical path reached.
RECURSIVE Resolve(_, _)
Resolve(cur, comps) ==
    IF comps = <<>> THEN [ok |-> TRUE, at |-> cur]
    ELSE IF Node(cur).type # "dir" THEN [ok |-> FALSE, at |-> cur]
    ELSE LET c == Head(comps)
             n == Node(Append(cur, c))
         IN IF c = <<>> \/ c = <<".">> THEN Resolve(cur, Tail(comps))
            ELSE IF c = <<".", ".">> THEN Resolve(Parent(cur), Tail(comps))
            ELSE IF n.type = "none" THEN [ok |-> FALSE, at |-> cur]
            ELSE IF n.type = "link" THEN Resolve(n.target, Tail(comps))
            ELSE Resolve(Append(cur, c), Tail(comps))

\* open(path, "rb") of an absolute path, then reading it: the file's content,
\* or ok = FALSE for an OSError (no such file, not a directory, is a directory)
Open(path) ==
    LET r == Resolve(<<>>, Split(path, "/"))
    IN IF r.ok /\ Node(r.at).type = "file"
       THEN [ok |-> TRUE, content |-> Node(r.at).content]
       ELSE [ok |-> FALSE, content |-> Malformed]

\* sorted(os.scandir(dir)): the entries that exist in a directory, in name order
scandir(c) == SelectSeq(Listing(c), LAMBDA n : Node(Append(c, n)).type # "none")

\* ------------------------------------------------------------ the allowlist
\* ALLOW_UNRESOLVED: glob patterns, "*" matches any run of bytes
ALLOW_UNRESOLVED == <<
    <<"linux-vdso", ".", "so", ".", "*">>,
    <<"ld-musl-", "*", ".", "so", ".", "*">>,
    <<"ld-linux-", "*", ".", "so", ".", "*">>,
    <<"libc", ".", "so", ".", "*">>,
    <<"libdl", ".", "so", ".", "*">>,
    <<"libm", ".", "so", ".", "*">>,
    <<"libmemusage", ".", "so", ".", "*">>,
    <<"libmvec", ".", "so", ".", "*">>,
    <<"libnsl", ".", "so", ".", "*">>,
    <<"libnss_compat", ".", "so", ".", "*">>,
    <<"libnss_db", ".", "so", ".", "*">>,
    <<"libnss_dns", ".", "so", ".", "*">>,
    <<"libnss_files", ".", "so", ".", "*">>,
    <<"libnss_hesiod", ".", "so", ".", "*">>,
    <<"libpcprofile", ".", "so", ".", "*">>,
    <<"libpthread", ".", "so", ".", "*">>,
    <<"libresolv", ".", "so", ".", "*">>,
    <<"librt", ".", "so", ".", "*">>,
    <<"libSegFault", ".", "so", ".", "*">>,
    <<"libthread_db", ".", "so", ".", "*">>,
    <<"libutil", ".", "so", ".", "*">>,
    <<"libudev", ".", "so", ".", "*">> >>

\* fnmatch.translate(pat) matched against the whole name
RECURSIVE GlobMatch(_, _)
GlobMatch(pat, s) ==
    IF pat = <<>> THEN s = <<>>
    ELSE IF Head(pat) = "*"
         THEN GlobMatch(Tail(pat), s) \/ (s # <<>> /\ GlobMatch(pat, Tail(s)))
    ELSE s # <<>> /\ Head(s) = Head(pat) /\ GlobMatch(Tail(pat), Tail(s))

\* ALLOW_UNRESOLVED_REGEX.match(name): the alternation of all patterns
ALLOW_UNRESOLVED_REGEX(name) ==
    \E i \in 1..Len(ALLOW_UNRESOLVED) : GlobMatch(ALLOW_UNRESOLVED[i], name)

\* Mutant of should_be_resolved: a name that does not decode counts as allowed
should_be_resolved_FailOpen(filename) ==
    IF Decodable(filename) THEN ~ALLOW_UNRESOLVED_REGEX(filename) ELSE FALSE

should_be_resolved(filename) ==
    IF Decodable(filename) THEN ~ALLOW_UNRESOLVED_REGEX(filename) ELSE TRUE

\* ------------------------------------------------------ compatibility judge
\* Mutant of is_compatible: the bit width is not compared
is_compatible_AnyWidth(parent, child) ==
    /\ child.e_type = "ET_DYN"
    /\ parent.is_little_endian = child.is_little_endian
    /\ parent.e_machine = child.e_machine

is_compatible(parent, child) ==
    /\ child.e_type = "ET_DYN"
    /\ parent.is_little_endian = child.is_little_endian
    /\ parent.is_64_bit = child.is_64_bit
    /\ parent.e_machine = child.e_machine

candidate_matches(current_elf, candidate_path) ==
    LET g == Open(candidate_path)
    IN IF ~g.ok THEN FALSE                     \* OSError
       ELSE IF ~g.content.elf THEN FALSE       \* ElfParsingError
       ELSE is_compatible(current_elf, g.content)

\* ------------------------------------------------------- resolution engine
\* Mutant of ExpandRpaths: relative entries are dropped together with the empty
\* ones
ExpandRpathsDropRelative(parsed_elf, origin) ==
    LET raw == IF parsed_elf.has_rpath THEN Split(parsed_elf.dt_rpath_str, ":") ELSE <<>>
        kept == SelectSeq(raw, LAMBDA x : x # <<>>)
    IN SelectSeq([i \in 1..Len(kept) |-> Replace(kept[i], "$ORIGIN", origin)], isabs)

\* visit_file, lines 116-120: the RPATH split on ":", empty entries dropped,
\* $ORIGIN replaced
ExpandRpaths(parsed_elf, origin) ==
    LET raw == IF parsed_elf.has_rpath THEN Split(parsed_elf.dt_rpath_str, ":") ELSE <<>>
        kept == SelectSeq(raw, LAMBDA x : x # <<>>)
    IN [i \in 1..Len(kept) |-> Replace(kept[i], "$ORIGIN", origin)]

\* Mutant of FirstMatch: a later matching rpath overrides an earlier one (the
\* loop without its break)
FirstMatchLast(parsed_elf, lib, rpaths, i) ==
    LET hits == {j \in i..Len(rpaths) : candidate_matches(parsed_elf, pathjoin(rpaths[j], lib))}
    IN IF hits = {} THEN 0 ELSE CHOOSE j \in hits : \A h \in hits : h <= j

\* The inner loop of lines 138-144: the index of the first rpath whose candidate
\* matches, 0 when the loop runs to its else branch
RECURSIVE FirstMatch(_, _, _, _)
FirstMatch(parsed_elf, lib, rpaths, i) ==
    IF i > Len(rpaths) THEN 0
    ELSE IF candidate_matches(parsed_elf, pathjoin(rpaths[i], lib)) THEN i
    ELSE FirstMatch(parsed_elf, lib, rpaths, i + 1)

\* Mutant of SearchEnd: the for loop's else branch runs after a break too
SearchEndAlwaysElse(lib, rpaths, acc, k) ==
    LET probes == [j \in 1..(IF k = 0 THEN Len(rpaths) ELSE k) |->
                      [lib |-> lib, candidate |-> pathjoin(rpaths[j], lib)]]
    IN IF k # 0
       THEN [acc EXCEPT !.resolved = DictSet(@, lib, pathjoin(rpaths[k], lib)),
                        !.unresolved = Append(@, lib), !.probes = @ \o probes]
       ELSE [acc EXCEPT !.unresolved = Append(@, lib), !.probes = @ \o probes]

\* Lines 141 and 144: the end of one pass of the outer loop, k = the index of
\* the matching rpath or 0 for none. acc: resolved (dict), unresolved (list),
\* relative_rpaths, probes (the candidates given to candidate_matches, in order)
SearchEnd(lib, rpaths, acc, k) ==
    LET probes == [j \in 1..(IF k = 0 THEN Len(rpaths) ELSE k) |->
                      [lib |-> lib, candidate |-> pathjoin(rpaths[j], lib)]]
    IN IF k # 0
       THEN [acc EXCEPT !.resolved = DictSet(@, lib, pathjoin(rpaths[k], lib)),
                        !.probes = @ \o probes]
       ELSE [acc EXCEPT !.unresolved = Append(@, lib), !.probes = @ \o probes]

\* Lines 136-144: one pass of the loop over search_libs
SearchStep(parsed_elf, lib, rpaths, acc) ==
    IF ~should_be_resolved(lib) THEN acc
    ELSE SearchEnd(lib, rpaths, acc, FirstMatch(parsed_elf, lib, rpaths, 1))

\* The loop of lines 135-144
RECURSIVE SearchLoop(_, _, _, _)
SearchLoop(parsed_elf, search_libs, rpaths, acc) ==
    IF search_libs = <<>> THEN acc
    ELSE SearchLoop(parsed_elf, Tail(search_libs), rpaths,
                    SearchStep(parsed_elf, Head(search_libs), rpaths, acc))

\* Lines 148-151: one pass of the loop over direct_libs
DirectStep(lib, acc, matches) ==
    IF matches
    THEN [acc EXCEPT !.resolved = DictSet(@, lib, lib),
                     !.probes = Append(@, [lib |-> lib, candidate |-> lib])]
    ELSE [acc EXCEPT !.unresolved = Append(@, lib),
                     !.probes = Append(@, [lib |-> lib, candidate |-> lib])]

\* The loop of lines 147-151
RECURSIVE DirectLoop(_, _, _)
DirectLoop(parsed_elf, direct_libs, acc) ==
    IF direct_libs = <<>> THEN acc
    ELSE DirectLoop(parsed_elf, Tail(direct_libs),
                    DirectStep(Head(direct_libs), acc,
                               candidate_matches(parsed_elf, Head(direct_libs))))

\* stable_partition(s, os.path.isabs)
PartitionAbs(s) == stable_partition(s, [i \in 1..Len(s) |-> isabs(s[i])])

\* stable_partition(needed_libs, lambda x: b"/" in x)
PartitionDirect(s) == stable_partition(s, [i \in 1..Len(s) |-> Contains(s[i], "/")])

\* Mutant of Loops: the direct libraries are checked before the search
LoopsDirectFirst(parsed_elf, rp, ds, dp) ==
    SearchLoop(parsed_elf, ds[2], rp[1],
        DirectLoop(parsed_elf, dp[1],
            [resolved |-> <<>>, unresolved |-> dp[2], relative_rpaths |-> rp[2],
             probes |-> <<>>]))

\* Lines 131-151, from the partitions rp = (rpaths, relative_rpaths),
\* ds = (direct libs, search_libs), dp = (direct_libs, unresolved)
Loops(parsed_elf, rp, ds, dp) ==
    DirectLoop(parsed_elf, dp[1],
        SearchLoop(parsed_elf, ds[2], rp[1],
            [resolved |-> <<>>, unresolved |-> dp[2], relative_rpaths |-> rp[2],
             probes |-> <<>>]))

Partitioned(parsed_elf, rp, ds) == Loops(parsed_elf, rp, ds, PartitionAbs(ds[1]))

\* visit_file, lines 112-151, for a parsed ELF with needed libraries:
\* resolved, unresolved, relative_rpaths and the probes made
Resolution(parsed_elf, origin) ==
    Partitioned(parsed_elf, PartitionAbs(ExpandRpaths(parsed_elf, origin)),
                PartitionDirect(parsed_elf.dt_needed_strs))

\* Mutant of IsProblem: relative rpaths alone do not make an entry
IsProblemUnresolvedOnly(unresolved, relative_rpaths) == unresolved # <<>>

\* Line 153: whether the file gets an entry in self.problems
IsProblem(unresolved, relative_rpaths) == unresolved # <<>> \/ relative_rpaths # <<>>

Problem(resolved, unresolved, relative_rpaths) ==
    [resolved |-> resolved, unresolved |-> unresolved, relative_rpaths |-> relative_rpaths]

NoResolution == [resolved |-> <<>>, unresolved |-> <<>>, relative_rpaths |-> <<>>,
                 probes |-> <<>>]

\* Lines 101-151 for the opened file f: analysed = FALSE when visit_file
\* returns at line 106 (not an ELF) or 110 (no needed libraries)
Parsed(f, origin) ==
    IF ~f.ok \/ ~f.content.elf THEN [analysed |-> FALSE, r |-> NoResolution]
    ELSE IF ~f.content.has_needed THEN [analysed |-> FALSE, r |-> NoResolution]
    ELSE [analysed |-> TRUE, r |-> Resolution(f.content, origin)]

\* visit_file up to line 151: what the engine computes for the file rel_path
\* under root
Analyse(root, rel_path) ==
    Parsed(Open(pathjoin(root, rel_path)), dirname(pathjoin(root, rel_path)))

\* Lines 153-154
Record(probs, rel_path, a) ==
    IF a.analysed /\ IsProblem(a.r.unresolved, a.r.relative_rpaths)
    THEN DictSet(probs, rel_path,
             Problem(a.r.resolved, a.r.unresolved, a.r.relative_rpaths))
    ELSE probs

\* visit_file: self.problems after the call
visit_file(probs, root, rel_path, depth) == Record(probs, rel_path, Analyse(root, rel_path))

\* One call of visit_file, as the history keeps it
Call(rel_path, a) == [file |-> rel_path, analysed |-> a.analysed, r |-> a.r]

\* visit_symlinked_file: pass
visit_symlinked_file(probs, root, rel_path, depth) == probs

before_visit_dir(root, rel_path, depth) == TRUE

\* Mutant of before_visit_symlinked_dir: symlinked directories are entered
before_visit_symlinked_dir_Enter(root, rel_path, depth) == TRUE

before_visit_symlinked_dir(root, rel_path, depth) == FALSE

\* ------------------------------------------------------------- tree walker
\* llnl.util.filesystem.visit_directory_tree: the entries of a directory in name
\* order, each handed to the visitor's callback for its kind; a directory is
\* entered when its before_ callback says so. stack = the entries still to be
\* handed over, each a sequence of names below the root.
RootAt == Resolve(<<>>, Split(Prefix, "/")).at
rel_path(entry) == Join(entry, "/")
depth(entry) == Len(entry) - 1
EntryDir(entry) == Resolve(RootAt, SubSeq(entry, 1, Len(entry) - 1)).at
EntryAt(entry) == Append(EntryDir(entry), entry[Len(entry)])
islink(entry) == Node(EntryAt(entry)).type = "link"
TargetAt(entry) == IF islink(entry) THEN Node(EntryAt(entry)).target ELSE EntryAt(entry)
isdir(entry) == Node(TargetAt(entry)).type = "dir"
ChildEntries(entry) ==
    LET names == scandir(TargetAt(entry))
    IN [i \in 1..Len(names) |-> Append(entry, names[i])]
RootEntries ==
    LET names == scandir(RootAt) IN [i \in 1..Len(names) |-> <<names[i]>>]

\* -------------------------------------------------------------- the report
\* maybe_decode: text (str = TRUE) when the bytes decode, else the bytes
maybe_decode(byte_str) == [str |-> Decodable(byte_str), v |-> byte_str]

\* An f-string's {x}: text as it is, bytes as their repr
Format(x) == IF x.str THEN x.v ELSE <<"b'">> \o x.v \o <<"'">>

Indent == "        "

\* Lines 198-204: one resolved library's line (each line a sequence of
\* pieces of text)
ResolvedLine(needed, full_path) ==
    IF needed = full_path
    THEN <<Indent>> \o maybe_decode(needed).v
    ELSE <<Indent>> \o Format(maybe_decode(needed)) \o <<" => ">>
             \o Format(maybe_decode(full_path))

ResolvedLines(resolved) ==
    [i \in 1..Len(resolved) |-> ResolvedLine(resolved[i].key, resolved[i].val)]

\* Lines 205-206
UnresolvedLine(not_found) ==
    <<Indent>> \o Format(maybe_decode(not_found)) \o <<" => not found">>

UnresolvedLines(unresolved) ==
    [i \in 1..Len(unresolved) |-> UnresolvedLine(unresolved[i])]

\* Lines 196-207: one file's block
Block(entry) ==
    <<entry.key>> \o ResolvedLines(entry.val.resolved)
        \o UnresolvedLines(entry.val.unresolved) \o << <<>> >>

\* Line 201 hands maybe_decode's result to StringIO.write, which takes text only:
\* bytes there are a TypeError
WriteFails(probs) ==
    \E i \in 1..Len(probs) : \E j \in 1..Len(probs[i].val.resolved) :
        /\ probs[i].val.resolved[j].key = probs[i].val.resolved[j].val
        /\ ~maybe_decode(probs[i].val.resolved[j].key).str

\* Lines 193-207: output.getvalue(), as its lines
ReportText(probs) ==
    << <<"Not all executables/libraries can resolve their dependencies:">> >>
        \o Flatten([i \in 1..Len(probs) |-> Block(probs[i])])

NoException == [type |-> "none", msg |-> <<>>]

\* The exception of lines 166-167, carrying the report
CannotLocateSharedLibraries(text) == [type |-> "CannotLocateSharedLibraries", msg |-> text]

\* ------------------------------------------------------------------ inputs
NeededNames == {LibX, LibC, LibU, DirectX, DirectU, RelDirectX}
RpathEntries == {DirB, OriginLib, RelLib}
KindsB == {"missing", "dyn64", "dyn32"}
EngineKindsB == {"missing", "dyn64"}
Platforms == {"linux", "freebsd", "darwin"}

\* The ELF files bin/app can be: at most n needed libraries, at most m RPATH entries
AppElfs(n, m) ==
    {Elf("ET_EXEC", TRUE, TRUE, "x86_64", needed, TRUE, Join(entries, ":")) :
        needed \in SeqsUpTo(NeededNames, n), entries \in SeqsUpTo(RpathEntries, m)}
    \cup {Elf("ET_EXEC", TRUE, TRUE, "x86_64", needed, FALSE, <<>>) :
        needed \in SeqsUpTo(NeededNames, n)}

\* ------------------------------------------------------------ post_install
Init ==
    /\ appElf \in AppElfs(WalkNeeded, WalkRpath) \cup {Malformed}
    /\ kindA \in LibKinds
    /\ kindB \in KindsB
    /\ external \in BOOLEAN
    /\ platform \in Platforms
    /\ strict \in BOOLEAN
    /\ pc = "start"
    /\ stack = <<>>
    /\ visited = <<>>
    /\ problems = <<>>
    /\ raised = NoException
    /\ log = <<>>

\* Lines 182-186: the gate, the visitor created, the walk begun
Enter ==
    /\ pc = "start"
    /\ IF external \/ platform \notin {"linux", "freebsd"}
       THEN pc' = "done" /\ stack' = stack
       ELSE pc' = "walk" /\ stack' = RootEntries
    /\ UNCHANGED <<appElf, kindA, kindB, external, platform, strict, visited,
                   problems, raised, log>>

\* The walker hands a regular file to visit_file
VisitFile ==
    /\ pc = "walk" /\ stack # <<>>
    /\ LET e == Head(stack)
       IN /\ ~isdir(e) /\ ~islink(e)
          /\ problems' = visit_file(problems, Prefix, rel_path(e), depth(e))
          /\ visited' = Append(visited, Call(rel_path(e), Analyse(Prefix, rel_path(e))))
    /\ stack' = Tail(stack)
    /\ UNCHANGED <<appElf, kindA, kindB, pc, external, platform, strict, raised, log>>

\* The walker hands a symlink to a file to visit_symlinked_file
VisitSymlinkedFile ==
    /\ pc = "walk" /\ stack # <<>>
    /\ LET e == Head(stack)
       IN /\ ~isdir(e) /\ islink(e)
          /\ problems' = visit_symlinked_file(problems, Prefix, rel_path(e), depth(e))
    /\ stack' = Tail(stack)
    /\ UNCHANGED <<appElf, kindA, kindB, pc, external, platform, strict, visited,
                   raised, log>>

\* The walker asks before_visit_dir and enters the directory on True
BeforeVisitDir ==
    /\ pc = "walk" /\ stack # <<>>
    /\ LET e == Head(stack)
       IN /\ isdir(e) /\ ~islink(e)
          /\ stack' = IF before_visit_dir(Prefix, rel_path(e), depth(e))
                      THEN ChildEntries(e) \o Tail(stack) ELSE Tail(stack)
    /\ UNCHANGED <<appElf, kindA, kindB, pc, external, platform, strict, visited,
                   problems, raised, log>>

\* The walker asks before_visit_symlinked_dir and enters the directory on True
BeforeVisitSymlinkedDir ==
    /\ pc = "walk" /\ stack # <<>>
    /\ LET e == Head(stack)
       IN /\ isdir(e) /\ islink(e)
          /\ stack' = IF before_visit_symlinked_dir(Prefix, rel_path(e), depth(e))
                      THEN ChildEntries(e) \o Tail(stack) ELSE Tail(stack)
    /\ UNCHANGED <<appElf, kindA, kindB, pc, external, platform, strict, visited,
                   problems, raised, log>>

\* Lines 188-213, after the walk: nothing for no problems; else the report is
\* written, then raised (strict) or logged
Report ==
    /\ pc = "walk" /\ stack = <<>>
    /\ pc' = "done"
    /\ IF problems = <<>> THEN raised' = raised /\ log' = log
       ELSE IF WriteFails(problems)
       THEN raised' = [type |-> "TypeError", msg |-> <<>>] /\ log' = log
       ELSE IF strict
       THEN /\ raised' = CannotLocateSharedLibraries(ReportText(problems))
            /\ log' = log
       ELSE raised' = raised /\ log' = Append(log, ReportText(problems))
    /\ UNCHANGED <<appElf, kindA, kindB, external, platform, strict, stack, visited,
                   problems>>

Next ==
    \/ Enter
    \/ VisitFile
    \/ VisitSymlinkedFile
    \/ BeforeVisitDir
    \/ BeforeVisitSymlinkedDir
    \/ Report

Spec == Init /\ [][Next]_vars

\* ------------------------------------------- the engine on one file, alone
\* visit_file applied to bin/app, over a wider set of ELF files
InitEngine ==
    /\ appElf \in AppElfs(MaxNeeded, MaxRpath)
    /\ kindA \in LibKinds
    /\ kindB \in EngineKindsB
    /\ external = FALSE
    /\ platform = "linux"
    /\ strict = FALSE
    /\ pc = "walk"
    /\ stack = << <<nBin, nApp>> >>
    /\ visited = <<>>
    /\ problems = <<>>
    /\ raised = NoException
    /\ log = <<>>

SpecEngine == InitEngine /\ [][VisitFile]_vars

\* ---------------------------------------------------------------- claims
\* What the claims speak of, read off the file system and the file's own
\* dynamic section.
FileElf(v) == Open(pathjoin(Prefix, v.file)).content
Needed(v) == FileElf(v).dt_needed_strs
NeededSet(v) == {Needed(v)[j] : j \in 1..Len(Needed(v))}
Count(s, x) == Cardinality({j \in 1..Len(s) : s[j] = x})
Repeat(s, c) == [i \in 1..(c * Len(s)) |-> s[((i - 1) % Len(s)) + 1]]
IsBare(n) == ~Contains(n, "/")

\* The file's RPATH entries as the loader reads them: split on ":", empty ones
\* dropped, $ORIGIN replaced by the file's directory
DeclaredEntries(v) ==
    LET kept == SelectSeq(Split(FileElf(v).dt_rpath_str, ":"), LAMBDA x : x # <<>>)
    IN [i \in 1..Len(kept) |->
           Replace(kept[i], "$ORIGIN", dirname(pathjoin(Prefix, v.file)))]
SearchPath(v) == SelectSeq(DeclaredEntries(v), isabs)
RelativeEntries(v) == SelectSeq(DeclaredEntries(v), LAMBDA x : ~isabs(x))

\* A usable shared library for the consumer v sits at path
Usable(v, path) ==
    LET g == Open(path)
    IN /\ g.ok
       /\ g.content.elf
       /\ g.content.e_type = "ET_DYN"
       /\ g.content.is_little_endian = FileElf(v).is_little_endian
       /\ g.content.is_64_bit = FileElf(v).is_64_bit
       /\ g.content.e_machine = FileElf(v).e_machine

\* The first search-path entry holding a usable n, 0 when none does
FirstUsable(v, n) ==
    LET sp == SearchPath(v)
        hits == {j \in 1..Len(sp) : Usable(v, sp[j] \o <<"/">> \o n)}
    IN IF hits = {} THEN 0 ELSE CHOOSE j \in hits : \A h \in hits : j <= h

ProbesOf(v, n) == SelectSeq(v.r.probes, LAMBDA p : p.lib = n)

\* The probes one pass over the search path makes for n
OnePass(v, n) ==
    LET sp == SearchPath(v)
        k == FirstUsable(v, n)
    IN [j \in 1..(IF k = 0 THEN Len(sp) ELSE k) |->
           [lib |-> n, candidate |-> sp[j] \o <<"/">> \o n]]

\* $ORIGIN/../lib of bin/app, expanded
AppOriginLib == <<"/", "p", "/", "bin", "/", ".", ".", "/", "lib">>

\* C1: a bare needed name that is not allowlisted is probed only at the
\* file's absolute RPATH entries, in declared order, and resolves to entry/name
\* for the first entry whose candidate is compatible; with none it is
\* unresolved. No probe is ever formed from a relative entry.
C1_FirstCompatibleEntryWins ==
    \A i \in 1..Len(visited) :
        LET v == visited[i]
        IN v.analysed =>
            /\ \A n \in {m \in NeededSet(v) : IsBare(m) /\ should_be_resolved(m)} :
                /\ FirstUsable(v, n) # 0 =>
                      /\ HasKey(v.r.resolved, n)
                      /\ DictGet(v.r.resolved, n)
                             = SearchPath(v)[FirstUsable(v, n)] \o <<"/">> \o n
                /\ FirstUsable(v, n) = 0 =>
                      ~HasKey(v.r.resolved, n) /\ Contains(v.r.unresolved, n)
                /\ ProbesOf(v, n) = Repeat(OnePass(v, n), Count(Needed(v), n))
            /\ \A j \in 1..Len(v.r.probes) : isabs(v.r.probes[j].candidate)
            /\ (/\ SearchPath(v) = <<AppOriginLib, DirB>>
                /\ kindA = "dyn64" /\ kindB = "dyn64" /\ LibX \in NeededSet(v))
               => DictGet(v.r.resolved, LibX) = AppOriginLib \o <<"/">> \o LibX

\* C1 witness: the first entry's candidate is incompatible and passed over, the
\* second entry's candidate is taken
C1_Witness ==
    \E i \in 1..Len(visited) :
        /\ visited[i].analysed
        /\ Len(SearchPath(visited[i])) = 2
        /\ SearchPath(visited[i])[2] = DirB
        /\ kindA = "dyn32"
        /\ Len(RelativeEntries(visited[i])) = 0
        /\ HasKey(visited[i].r.resolved, LibX)
        /\ DictGet(visited[i].r.resolved, LibX) = DirB \o <<"/">> \o LibX

\* The relative paths of the regular files of the tree that are no symlinks and
\* sit below real directories only
RelApp == <<"bin", "/", "app">>
RelLibC == <<"lib", "/">> \o LibC
RelLibX == <<"lib", "/">> \o LibX
RealFiles == {RelApp} \cup (IF kindA = "missing" THEN {} ELSE {RelLibC, RelLibX})

Skipped == external \/ platform \notin {"linux", "freebsd"}
WalkDone == (pc = "walk" /\ stack = <<>>) \/ (pc = "done" /\ ~Skipped)

\* The needed name n of the file v is fine: allowlisted, found on the search
\* path, or an absolute path to a usable library
NameFine(v, n) ==
    IF IsBare(n) THEN ~should_be_resolved(n) \/ FirstUsable(v, n) # 0
    ELSE isabs(n) /\ Usable(v, n)
AllFine(v) ==
    /\ FileElf(v).elf
    /\ RelativeEntries(v) = <<>>
    /\ \A n \in NeededSet(v) : NameFine(v, n)

C3_AsClaimed ==
    \A i \in 1..Len(visited) :
        LET v == visited[i]
        IN (FileElf(v).elf /\ RelativeEntries(v) # <<>>) =>
            /\ HasKey(problems, v.file)
            /\ DictGet(problems, v.file).relative_rpaths = RelativeEntries(v)

\* C3: every ELF file that has at least one needed library and whose RPATH
\* holds a relative entry has an entry in problems with that entry in
\* relative_rpaths, also when every needed library resolves.
C3_RelativeRpathFlagged ==
    \A i \in 1..Len(visited) :
        LET v == visited[i]
        IN (FileElf(v).elf /\ Needed(v) # <<>> /\ RelativeEntries(v) # <<>>) =>
            /\ HasKey(problems, v.file)
            /\ DictGet(problems, v.file).relative_rpaths = RelativeEntries(v)

\* C3 witness: every needed library resolved through an absolute entry, and
\* the file is reported for its relative entry
C3_Witness ==
    \E i \in 1..Len(visited) :
        /\ visited[i].r.unresolved = <<>>
        /\ visited[i].r.resolved # <<>>
        /\ SearchPath(visited[i]) # <<>>
        /\ HasKey(problems, visited[i].file)
        /\ Contains(DictGet(problems, visited[i].file).relative_rpaths, RelLib)

\* C4: in what the engine computes for a file, no name is both a key of
\* resolved and an element of unresolved; the same for every entry of problems.
C4_ResolvedUnresolvedDisjoint ==
    /\ \A i \in 1..Len(visited) : \A n \in NeededSet(visited[i]) :
          ~(HasKey(visited[i].r.resolved, n) /\ Contains(visited[i].r.unresolved, n))
    /\ \A j \in 1..Len(problems) : \A k \in 1..Len(problems[j].val.resolved) :
          ~Contains(problems[j].val.unresolved, problems[j].val.resolved[k].key)

\* C4 witness: a file that declares the same name twice and gets a diagnostic
\* in which that name is resolved
C4_Witness ==
    \E i \in 1..Len(visited) :
        /\ Count(Needed(visited[i]), LibX) = 2
        /\ HasKey(problems, visited[i].file)
        /\ HasKey(DictGet(problems, visited[i].file).resolved, LibX)

\* C5: libc.so.6, and any bare name the allowlist matches, is never a key of
\* resolved, never in unresolved and never probed; a bare name that does not
\* decode is not allowlisted: it is resolved iff the search path holds a
\* usable file of that name, and unresolved otherwise.
C5_AllowlistSkipFailClosed ==
    /\ ~should_be_resolved(LibC)
    /\ should_be_resolved(LibU)
    /\ \A i \in 1..Len(visited) :
          LET v == visited[i]
          IN v.analysed =>
              /\ \A n \in {m \in NeededSet(v) : IsBare(m) /\ (m = LibC \/ ~should_be_resolved(m))} :
                    /\ ~HasKey(v.r.resolved, n)
                    /\ ~Contains(v.r.unresolved, n)
                    /\ ProbesOf(v, n) = <<>>
              /\ \A n \in {m \in NeededSet(v) : IsBare(m) /\ ~Decodable(m)} :
                    /\ HasKey(v.r.resolved, n) <=> FirstUsable(v, n) # 0
                    /\ Contains(v.r.unresolved, n) <=> FirstUsable(v, n) = 0

\* C5 witness: libc.so.6 is needed and a compatible file of that name sits on
\* the search path, next to a name that does not decode and is unresolved
C5_Witness ==
    \E i \in 1..Len(visited) :
        /\ visited[i].analysed
        /\ Needed(visited[i]) = <<LibC, LibU>>
        /\ kindA = "dyn64"
        /\ SearchPath(visited[i]) # <<>>
        /\ Usable(visited[i], SearchPath(visited[i])[1] \o <<"/">> \o LibC)
        /\ visited[i].r.unresolved = <<LibU>>

\* C6 as claimed: once post_install is over, a skipped invocation (external
\* package, or a platform other than linux and freebsd) has walked nothing,
\* raised nothing and logged nothing; an empty problems dict raises and logs
\* nothing; a non-empty one raises CannotLocateSharedLibraries carrying the
\* report text and logs nothing when strict, and logs that text once and
\* raises nothing when not strict.
C6_AsClaimed ==
    pc = "done" =>
        /\ Skipped =>
              visited = <<>> /\ problems = <<>> /\ raised = NoException /\ log = <<>>
        /\ (~Skipped /\ problems = <<>>) => (raised = NoException /\ log = <<>>)
        /\ (~Skipped /\ problems # <<>> /\ strict) =>
              /\ raised = CannotLocateSharedLibraries(ReportText(problems))
              /\ log = <<>>
        /\ (~Skipped /\ problems # <<>> /\ ~strict) =>
              /\ raised = NoException
              /\ log = <<ReportText(problems)>>

\* C7: only regular files that are no symlinks and sit below real directories
\* are handed to visit_file or get an entry in problems (never bin/applnk,
\* never a file below ext); every such file is handed over exactly once by the
\* end of the walk, and an entry holds what visit_file computed for its file.
C7_SymlinksExcluded ==
    /\ \A i \in 1..Len(visited) : visited[i].file \in RealFiles
    /\ \A j \in 1..Len(problems) :
          /\ problems[j].key \in RealFiles
          /\ \E i \in 1..Len(visited) :
                /\ visited[i].file = problems[j].key
                /\ problems[j].val = Problem(visited[i].r.resolved,
                       visited[i].r.unresolved, visited[i].r.relative_rpaths)
    /\ WalkDone => \A f \in RealFiles :
          Cardinality({i \in 1..Len(visited) : visited[i].file = f}) = 1

\* C7 witness: the walk is over, bin/app (the target of bin/applnk) has an
\* entry, and the files of both real directories were handed over
C7_Witness ==
    /\ WalkDone
    /\ HasKey(problems, RelApp)
    /\ Len(visited) = 3
    /\ Len(problems) = 1

\* C8: what the engine does with a needed name is decided by whether a usable
\* file (opens, parses, ET_DYN, same endianness, width and machine as the
\* consumer) sits at the candidate path: an absolute direct name is resolved
\* iff its own path is usable, a bare name that must resolve is resolved iff
\* some search-path entry holds a usable candidate, and each is unresolved
\* otherwise. No failure leaves the walk, which hands over every file; a
\* 64-bit consumer finding libx.so only as a 32-bit file has it unresolved.
C8_MatchIffUsable ==
    /\ \A i \in 1..Len(visited) :
          LET v == visited[i]
          IN v.analysed =>
              /\ \A n \in {m \in NeededSet(v) : ~IsBare(m) /\ isabs(m)} :
                    /\ HasKey(v.r.resolved, n) <=> Usable(v, n)
                    /\ Contains(v.r.unresolved, n) <=> ~Usable(v, n)
              /\ \A n \in {m \in NeededSet(v) : IsBare(m) /\ should_be_resolved(m)} :
                    /\ HasKey(v.r.resolved, n) <=> FirstUsable(v, n) # 0
                    /\ Contains(v.r.unresolved, n) <=> FirstUsable(v, n) = 0
              /\ (/\ v.file = RelApp /\ Needed(v) = <<LibX>> /\ kindA = "dyn32"
                  /\ FileElf(v).dt_rpath_str = OriginLib)
                 => v.r.unresolved = <<LibX>>
    /\ pc = "walk" => raised = NoException
    /\ WalkDone => \A f \in RealFiles : \E i \in 1..Len(visited) : visited[i].file = f

\* C8 witness: the 64-bit bin/app found libx.so only as a 32-bit file, and the
\* walk went on through lib, where the 32-bit lib/libx.so resolved its own
\* needed library to the 32-bit /o/lib/libx.so
C8_Witness ==
    /\ WalkDone
    /\ Len(visited) = 3
    /\ kindA = "dyn32" /\ kindB = "dyn32"
    /\ visited[1].file = RelApp
    /\ FileElf(visited[1]).dt_rpath_str = OriginLib
    /\ visited[1].r.unresolved = <<LibX>>
    /\ visited[3].file = RelLibX
    /\ visited[3].r.resolved = <<[key |-> DirectX, val |-> DirectX]>>

\* The text post_install produced: the exception's message or the logged text
Rendered ==
    IF raised.type = "CannotLocateSharedLibraries" THEN raised.msg
    ELSE IF log # <<>> THEN log[1] ELSE <<>>

\* C9 as claimed: a needed name with a path separator is probed at its own
\* path only, and only when absolute; absolute and usable, it is resolved to
\* itself and its line in the rendered report is the name without an arrow;
\* otherwise it is unresolved. A bare name never resolves to itself and its
\* line carries name => path.
C9_AsClaimed ==
    /\ \A i \in 1..Len(visited) :
          LET v == visited[i]
          IN v.analysed =>
              /\ \A n \in {m \in NeededSet(v) : ~IsBare(m)} :
                    /\ ProbesOf(v, n) =
                           IF isabs(n)
                           THEN Repeat(<<[lib |-> n, candidate |-> n]>>, Count(Needed(v), n))
                           ELSE <<>>
                    /\ (isabs(n) /\ Usable(v, n)) =>
                           /\ HasKey(v.r.resolved, n)
                           /\ DictGet(v.r.resolved, n) = n
                           /\ ~Contains(v.r.unresolved, n)
                    /\ (~isabs(n) \/ ~Usable(v, n)) =>
                           ~HasKey(v.r.resolved, n) /\ Contains(v.r.unresolved, n)
              /\ \A n \in {m \in NeededSet(v) : IsBare(m)} :
                    HasKey(v.r.resolved, n) => DictGet(v.r.resolved, n) # n
    /\ (pc = "done" /\ ~Skipped) =>
          \A j \in 1..Len(problems) : \A k \in 1..Len(problems[j].val.resolved) :
              LET e == problems[j].val.resolved[k]
              IN Contains(Rendered,
                     IF IsBare(e.key)
                     THEN <<Indent>> \o Format(maybe_decode(e.key)) \o <<" => ">>
                              \o Format(maybe_decode(e.val))
                     ELSE <<Indent>> \o e.key)

\* What C10 orders, read off the needed list
IsFailedSearch(v, n) == IsBare(n) /\ should_be_resolved(n) /\ FirstUsable(v, n) = 0
IsFoundSearch(v, n) == IsBare(n) /\ should_be_resolved(n) /\ FirstUsable(v, n) # 0
RelDirect(v) == SelectSeq(Needed(v), LAMBDA n : ~IsBare(n) /\ ~isabs(n))
FailedDirect(v) == SelectSeq(Needed(v), LAMBDA n : ~IsBare(n) /\ isabs(n) /\ ~Usable(v, n))
FoundDirect(v) == SelectSeq(Needed(v), LAMBDA n : ~IsBare(n) /\ isabs(n) /\ Usable(v, n))
FailedSearch(v) == SelectSeq(Needed(v), LAMBDA n : IsFailedSearch(v, n))
FoundSearch(v) == SelectSeq(Needed(v), LAMBDA n : IsFoundSearch(v, n))
RECURSIVE Dedup(_)
Dedup(s) ==
    IF s = <<>> THEN <<>>
    ELSE LET d == Dedup(SubSeq(s, 1, Len(s) - 1))
         IN IF Contains(d, s[Len(s)]) THEN d ELSE Append(d, s[Len(s)])

\* C10 as claimed: unresolved is the relative direct names, then the absolute
\* direct names that failed, then the bare names that failed, each in declared
\* order; the resolved direct names come before the resolved bare names.
C10_AsClaimed ==
    \A i \in 1..Len(visited) :
        LET v == visited[i]
        IN v.analysed =>
            /\ v.r.unresolved = RelDirect(v) \o FailedDirect(v) \o FailedSearch(v)
            /\ Keys(v.r.resolved) = Dedup(FoundDirect(v)) \o Dedup(FoundSearch(v))

\* C10: unresolved is the relative direct names, then the bare names that
\* failed, then the absolute direct names that failed, each in declared order
\* (a name once per occurrence); the resolved bare names come before the
\* resolved direct names (a name once, at its first occurrence).
C10_SearchBeforeDirect ==
    \A i \in 1..Len(visited) :
        LET v == visited[i]
        IN v.analysed =>
            /\ v.r.unresolved = RelDirect(v) \o FailedSearch(v) \o FailedDirect(v)
            /\ Keys(v.r.resolved) = Dedup(FoundSearch(v)) \o Dedup(FoundDirect(v))

\* C10 witness: a direct name declared before a bare name, both failing, end
\* in unresolved in the opposite order
C10_Witness ==
    \E i \in 1..Len(visited) :
        /\ visited[i].analysed
        /\ Needed(visited[i]) = <<DirectX, LibX>>
        /\ visited[i].r.unresolved = <<LibX, DirectX>>

====
